---- MODULE Spec2Model ----
(***************************************************************************)
(* A model of gohubbub.go, the PubSubHubbub subscriber client.             *)
(*                                                                         *)
(* Text that the code parses (paths, headers, query values, secrets,       *)
(* topics) is a sequence of one-character strings; text that the code only *)
(* copies (response bodies, hub.mode, hub.challenge) is a TLA+ string.     *)
(* A []byte is a sequence of integers 0..255.  Time is counted in seconds  *)
(* since the zero time.Time.                                               *)
(***************************************************************************)
EXTENDS Integers, Sequences, FiniteSets, Bags, TLC

VARIABLES
    subscriptions,          \* Client.subscriptions: topic -> subscription
    subscriptionIdCounter,  \* the package variable subscriptionIdCounter
    running,                \* Client.running
    history,                \* Client.history: the ring and the current element
    now,                    \* time.Now()
    timers,                 \* pending time.AfterFunc timers (their due times)
    hung,                   \* ensureSubscribed is stuck in httpRequester.Do for good
    tasks,                  \* goroutines started by "go client.broadcast(...)"
    threads,                \* calls of Subscribe, Start and handleCallback under way
    request,                \* the callback request, when the latest operation is a callback
    resp,                   \* the http.ResponseWriter, when the latest operation is a callback
    outbox,                 \* the requests the latest operation handed to httpRequester.Do
    calls,                  \* handler invocations so far
    accepted,               \* the bodies handed to "go client.broadcast" so far
    overlap,                \* some broadcast goroutine started while another was alive
    epoch                   \* flips at every operation of the client

vars == <<subscriptions, subscriptionIdCounter, running, history, now, timers,
          hung, tasks, threads, request, resp, outbox, calls, accepted, overlap, epoch>>

----------------------------------------------------------------------------
(* Bounds of the model. *)

MaxSubscribe == 2       \* Subscribe calls explored
MaxAccepted == 3        \* accepted update callbacks explored
MaxSigned == 1          \* accepted update callbacks explored under every signature
MaxTasks == 2           \* broadcast goroutines alive at once
MaxThreads == 2         \* calls of Subscribe, Start and handleCallback under way at once
MaxAdvance == 2         \* clock steps explored
RingExtra == 2          \* bodies delivered beyond the capacity of the ring
StartTime == 100000     \* time.Now() when the client is constructed

----------------------------------------------------------------------------
(* Characters, bytes, and the strings / strconv / hex functions used. *)

Digits == <<"0", "1", "2", "3", "4", "5", "6", "7", "8", "9">>
LowerAlpha == <<"a", "b", "c", "d", "e", "f", "g", "h", "i", "j", "k", "l", "m",
                "n", "o", "p", "q", "r", "s", "t", "u", "v", "w", "x", "y", "z">>
UpperAlpha == <<"A", "B", "C", "D", "E", "F", "G", "H", "I", "J", "K", "L", "M",
                "N", "O", "P", "Q", "R", "S", "T", "U", "V", "W", "X", "Y", "Z">>

Range(s) == {s[i] : i \in 1..Len(s)}

DigitSet == Range(Digits)
LowerSet == Range(LowerAlpha)
UpperSet == Range(UpperAlpha)

IndexOf(s, c) == CHOOSE i \in 1..Len(s) : s[i] = c

\* []byte(string): the ASCII code of each character.
ByteOf(c) ==
    IF c \in DigitSet THEN 47 + IndexOf(Digits, c)
    ELSE IF c \in UpperSet THEN 64 + IndexOf(UpperAlpha, c)
    ELSE IF c \in LowerSet THEN 96 + IndexOf(LowerAlpha, c)
    ELSE IF c = "/" THEN 47
    ELSE IF c = "=" THEN 61
    ELSE IF c = "-" THEN 45
    ELSE 43

Bytes(s) == [i \in 1..Len(s) |-> ByteOf(s[i])]

\* hex.EncodeToString: two lower-case hex digits per byte.
HexDigit(n) == IF n < 10 THEN Digits[n + 1] ELSE LowerAlpha[n - 9]

EncodeToString(b) ==
    [i \in 1..(2 * Len(b)) |->
        IF i % 2 = 1 THEN HexDigit(b[(i + 1) \div 2] \div 16)
                     ELSE HexDigit(b[i \div 2] % 16)]

\* The case folding of strings.EqualFold, on the letters of the model.
Fold(c) == IF c \in UpperSet THEN LowerAlpha[IndexOf(UpperAlpha, c)] ELSE c

EqualFold(a, b) ==
    /\ Len(a) = Len(b)
    /\ \A i \in 1..Len(a) : Fold(a[i]) = Fold(b[i])

\* strings.Split(s, sep) for a one-character sep: every sep starts a new part.
RECURSIVE SplitFrom(_, _, _, _, _)
SplitFrom(s, sep, i, cur, acc) ==
    IF i > Len(s) THEN Append(acc, cur)
    ELSE IF s[i] = sep THEN SplitFrom(s, sep, i + 1, <<>>, Append(acc, cur))
    ELSE SplitFrom(s, sep, i + 1, Append(cur, s[i]), acc)

Split(s, sep) == SplitFrom(s, sep, 1, <<>>, <<>>)

\* strconv.Atoi: an optional sign, then one or more decimal digits.
RECURSIVE DigitsValue(_, _, _)
DigitsValue(s, i, acc) ==
    IF i > Len(s) THEN acc
    ELSE DigitsValue(s, i + 1, 10 * acc + (IndexOf(Digits, s[i]) - 1))

Atoi(s) ==
    LET signed == Len(s) > 0 /\ s[1] \in {"+", "-"}
        body == IF signed THEN Tail(s) ELSE s
    IN  IF Len(body) = 0 \/ \E i \in 1..Len(body) : body[i] \notin DigitSet
        THEN [err |-> TRUE, val |-> 0]
        ELSE [err |-> FALSE,
              val |-> IF signed /\ s[1] = "-" THEN 0 - DigitsValue(body, 1, 0)
                      ELSE DigitsValue(body, 1, 0)]

\* fmt.Sprintf("%d", n) for n >= 0.
RECURSIVE Itoa(_)
Itoa(n) == IF n < 10 THEN <<Digits[n + 1]>> ELSE Append(Itoa(n \div 10), Digits[(n % 10) + 1])

----------------------------------------------------------------------------
(* Time. *)

Second == 1
Minute == 60 * Second
Hour == 60 * Minute
ZeroTime == 0                   \* the zero time.Time of a fresh subscription
ClockStep == 60 * Minute        \* what the clock moves in one step of the model

\* time.Time.Before
Before(t, u) == t < u

----------------------------------------------------------------------------
(* Hashes.  An HMAC is a function of the algorithm, the key and the message
   that differs when one of them differs; the model keeps all three in the
   digest.  md5.New().Sum(b) appends the digest of the empty input to b. *)

HashNames == {"sha1", "sha256", "sha384", "sha512"}

HashCode(alg) ==
    CASE alg = "sha1" -> 1 [] alg = "sha256" -> 2 [] alg = "sha384" -> 3 [] alg = "sha512" -> 4

\* hmac.New(alg, key); mac.Write(msg); mac.Sum(nil)
Hmac(alg, key, msg) == <<HashCode(alg)>> \o key \o <<0>> \o msg

Md5OfEmpty == <<212, 29, 140, 217, 143, 0, 178, 4, 233, 128, 9, 152, 236, 248, 66, 126>>

Md5Sum(body) == body \o Md5OfEmpty

----------------------------------------------------------------------------
(* The subscription record and the client. *)

NewSubscription(hub, topic, secret, id, handler) ==
    [hub |-> hub, topic |-> topic, secret |-> secret, id |-> id,
     handler |-> handler, lease |-> 0, verifiedAt |-> ZeroTime]

\* subscription.SecretKey
SecretKey(s) == EncodeToString(Hmac("sha1", Bytes(s.secret), Bytes(s.topic)))

HistorySize == 50

\* ring.New(HistorySize): every Value is nil (no element), cur is client.history.
NewRing == [vals |-> [i \in 1..HistorySize |-> <<>>], cur |-> 1]

\* A variant that looks at the current element only.
RingHoldsCurrent(h, hash) == h.vals[h.cur] = <<hash>>

\* client.history.Do(...) in broadcast: some element holds these bytes.
RingHolds(h, hash) == \E i \in 1..HistorySize : h.vals[i] = <<hash>>

\* client.history.Value = hash
RingSetValue(h, hash) == [h EXCEPT !.vals[h.cur] = <<hash>>]

\* A variant that stays on the current element.
RingStay(h) == h

\* client.history = client.history.Next()
RingNext(h) == [h EXCEPT !.cur = (h.cur % HistorySize) + 1]

HasSubscription(topic) == topic \in DOMAIN subscriptions

Self == <<"s", "e", "l", "f">>
CallbackPrefix == <<"/", "p", "u", "s", "h", "-", "c", "a", "l", "l", "b", "a", "c", "k", "/">>

formatCallbackURL(id) == Self \o CallbackPrefix \o Itoa(id)

----------------------------------------------------------------------------
(* Outbound requests.  httpRequester.Do answers 202, another status, fails
   with an error, or never returns (the http.Client has no timeout). *)

Outcomes == {"202", "500", "error", "hang"}

\* The form body makeSubscriptionRequest posts to s.hub.
SubscriptionRequest(s) ==
    [hub |-> s.hub, callback |-> formatCallbackURL(s.id), topic |-> s.topic,
     mode |-> "subscribe",
     secret |-> IF Len(s.secret) > 0 THEN SecretKey(s) ELSE <<>>]

\* The form body makeUnsubscribeRequeast posts to s.hub.
UnsubscribeRequest(s) ==
    [hub |-> s.hub, callback |-> formatCallbackURL(s.id), topic |-> s.topic,
     mode |-> "unsubscribe", secret |-> <<>>]

----------------------------------------------------------------------------
(* Inputs. *)

Hubs == {"hub"}
Topics == {<<"a">>, <<"b">>}

\* What the caller subscribes: topic a with a secret, topic b without one.
SecretOf(topic) == IF topic = <<"a">> THEN <<"k">> ELSE <<>>
Handlers == {"h1"}

----------------------------------------------------------------------------
(* NewClient *)

\* No callback is the latest operation.
NoRequest ==
    [mode |-> "none", topic |-> <<>>, challenge |-> "", leaseSeconds |-> <<>>, path |-> <<>>,
     signature |-> <<>>, contentType |-> "", body |-> <<>>, readErr |-> FALSE]

NoResponse == [wroteHeader |-> FALSE, status |-> 0, body |-> ""]

NoCallback == request' = NoRequest /\ resp' = NoResponse

Init ==
    /\ subscriptions = [t \in {} |-> NewSubscription("", t, <<>>, 0, "")]
    /\ subscriptionIdCounter = 0
    /\ running = FALSE
    /\ history = NewRing
    /\ now = StartTime
    /\ timers = <<>>
    /\ hung = FALSE
    /\ tasks = <<>>
    /\ threads = <<>>
    /\ request = NoRequest
    /\ resp = NoResponse
    /\ outbox = <<>>
    /\ calls = <<>>
    /\ accepted = EmptyBag
    /\ overlap = FALSE
    /\ epoch = 0

Flip == epoch' = 1 - epoch


----------------------------------------------------------------------------
(* Subscribe and Unsubscribe *)

\* client.subscriptions[topic] = s
MapPut(subs, topic, s) ==
    [t \in (DOMAIN subs) \cup {topic} |-> IF t = topic THEN s ELSE subs[t]]

\* delete(client.subscriptions, topic)
MapDelete(subs, topic) == [t \in (DOMAIN subs) \ {topic} |-> subs[t]]

\* A variant that removes the record only once the hub has accepted the request.
UnsubscribeMapOnSuccess(subs, topic, oc) ==
    IF topic \in DOMAIN subs /\ oc = "202" THEN MapDelete(subs, topic) ELSE subs

\* The registry after Unsubscribe(topic) whose request ended with oc.
UnsubscribeMap(subs, topic, oc) ==
    IF topic \in DOMAIN subs THEN MapDelete(subs, topic) ELSE subs

Subscribe(hub, topic, secret, handler, oc) ==
    LET s == NewSubscription(hub, topic, secret, subscriptionIdCounter, handler)
    IN  /\ subscriptionIdCounter < MaxSubscribe
        /\ subscriptions' = MapPut(subscriptions, topic, s)
        /\ subscriptionIdCounter' = subscriptionIdCounter + 1
        /\ outbox' = IF running THEN <<SubscriptionRequest(s)>> ELSE <<>>
        /\ NoCallback
        /\ Flip
        /\ UNCHANGED <<running, history, now, timers, hung, tasks, threads, calls, accepted,
                       overlap>>

\* A variant that makes its request whether the client runs or not.
UnsubscribeAlwaysSends(topic, oc) ==
    /\ subscriptions' = UnsubscribeMap(subscriptions, topic, oc)
    /\ outbox' = IF HasSubscription(topic)
                 THEN <<UnsubscribeRequest(subscriptions[topic])>> ELSE <<>>
    /\ NoCallback
    /\ Flip
    /\ UNCHANGED <<subscriptionIdCounter, running, history, now, timers, hung,
                   tasks, threads, calls, accepted, overlap>>

Unsubscribe(topic, oc) ==
    /\ subscriptions' = UnsubscribeMap(subscriptions, topic, oc)
    /\ outbox' = IF HasSubscription(topic) /\ running
                 THEN <<UnsubscribeRequest(subscriptions[topic])>> ELSE <<>>
    /\ NoCallback
    /\ Flip
    /\ UNCHANGED <<subscriptionIdCounter, running, history, now, timers, hung,
                   tasks, threads, calls, accepted, overlap>>

----------------------------------------------------------------------------
(* Start and the renewal scan *)

\* The orders in which "range client.subscriptions" may visit the topics.
Orders(S) == {o \in [1..Cardinality(S) -> S] : \A i, j \in 1..Cardinality(S) : o[i] = o[j] => i = j}

\* A variant without the hour of grace.
NeedsRenewalNoGrace(s, t) == Before(s.verifiedAt + s.lease, t)

\* expireTime.Before(oneHourAgo) in ensureSubscribed
NeedsRenewal(s, t) == Before(s.verifiedAt + s.lease, t - Hour)

\* The loop of ensureSubscribed over the records in this order, oc[topic]
\* being what httpRequester.Do does with the request for that topic: the
\* requests made, and whether the loop is stuck in one that never returns.
RECURSIVE Renewals(_, _, _, _, _, _)
Renewals(subs, t, order, oc, i, sent) ==
    IF i > Len(order) THEN [sent |-> sent, hung |-> FALSE]
    ELSE IF NeedsRenewal(subs[order[i]], t)
         THEN IF oc[order[i]] = "hang"
              THEN [sent |-> Append(sent, SubscriptionRequest(subs[order[i]])), hung |-> TRUE]
              ELSE Renewals(subs, t, order, oc, i + 1,
                            Append(sent, SubscriptionRequest(subs[order[i]])))
         ELSE Renewals(subs, t, order, oc, i + 1, sent)

\* ensureSubscribed, run while the timers in pending wait: the loop, then
\* time.AfterFunc(time.Minute, client.ensureSubscribed).
ensureSubscribed(order, oc, pending) ==
    LET r == Renewals(subscriptions, now, order, oc, 1, <<>>)
    IN  /\ outbox' = r.sent
        /\ hung' = (hung \/ r.hung)
        /\ timers' = IF r.hung THEN pending ELSE Append(pending, now + Minute)

\* Start: nothing when the client runs already, else the first scan, in some
\* order of the map and with some outcome of every request.
Start ==
    /\ UNCHANGED <<subscriptions, subscriptionIdCounter, history, now, tasks, threads,
                   calls, accepted, overlap>>
    /\ NoCallback
    /\ Flip
    /\ IF running
       THEN /\ outbox' = <<>>
            /\ UNCHANGED <<running, hung, timers>>
       ELSE /\ running' = TRUE
            /\ \E order \in Orders(DOMAIN subscriptions),
                  oc \in [DOMAIN subscriptions -> Outcomes] :
                    ensureSubscribed(order, oc, timers)

Remove(seq, i) == [j \in 1..(Len(seq) - 1) |-> IF j < i THEN seq[j] ELSE seq[j + 1]]

\* A timer set by time.AfterFunc fires and runs ensureSubscribed.
Tick(i, order, oc) ==
    /\ i \in 1..Len(timers)
    /\ timers[i] <= now
    /\ UNCHANGED <<subscriptions, subscriptionIdCounter, running, history, now, tasks,
                   threads, calls, accepted, overlap>>
    /\ NoCallback
    /\ Flip
    /\ ensureSubscribed(order, oc, Remove(timers, i))

\* The clock moves on.
Advance ==
    /\ now + ClockStep <= StartTime + MaxAdvance * ClockStep
    /\ now' = now + ClockStep
    /\ UNCHANGED <<subscriptions, subscriptionIdCounter, running, history, timers, hung,
                   tasks, threads, request, resp, outbox, calls, accepted, overlap, epoch>>

----------------------------------------------------------------------------
(* The http.ResponseWriter *)

StatusOK == 200
StatusBadRequest == 400

NewResponse == [wroteHeader |-> FALSE, status |-> 0, body |-> ""]

\* WriteHeader: the first call fixes the status, later calls are ignored.
WriteHeader(r, code) ==
    IF r.wroteHeader THEN r ELSE [r EXCEPT !.wroteHeader = TRUE, !.status = code]

\* Write: an implicit WriteHeader(200) when no header was written yet.
Write(r, data) == [WriteHeader(r, StatusOK) EXCEPT !.body = @ \o data]

\* A variant that writes the message without the status.
HttpErrorBodyOnly(r, msg, code) == Write(r, msg \o "\n")

\* http.Error: WriteHeader(code), then the message and a newline.
HttpError(r, msg, code) == Write(WriteHeader(r, code), msg \o "\n")

\* The server completes a response the handler never wrote to with status 200.
Finish(r) == WriteHeader(r, StatusOK)

----------------------------------------------------------------------------
(* handleCallback *)

nilSubscription == NewSubscription("", <<>>, <<>>, 0, "")

\* A variant that falls back on a registered record when none has the id.
subscriptionForPathOrAny(subs, path) ==
    LET parts == Split(path, "/")
        id == Atoi(parts[3])
        hits == {t \in DOMAIN subs : subs[t].id = id.val}
    IN  IF Len(parts) # 3 THEN {[s |-> nilSubscription, exists |-> FALSE]}
        ELSE IF id.err \/ DOMAIN subs = {} THEN {[s |-> nilSubscription, exists |-> FALSE]}
        ELSE IF hits = {} THEN {[s |-> subs[t], exists |-> TRUE] : t \in DOMAIN subs}
        ELSE {[s |-> subs[t], exists |-> TRUE] : t \in hits}

\* subscriptionForPath: what the loop over the map may return for this path.
subscriptionForPath(subs, path) ==
    LET parts == Split(path, "/")
        id == Atoi(parts[3])
        hits == {t \in DOMAIN subs : subs[t].id = id.val}
    IN  IF Len(parts) # 3 THEN {[s |-> nilSubscription, exists |-> FALSE]}
        ELSE IF id.err \/ hits = {} THEN {[s |-> nilSubscription, exists |-> FALSE]}
        ELSE {[s |-> subs[t], exists |-> TRUE] : t \in hits}

\* The switch on signature[0]: the hash it selects, "" when it selects none.
RecognizedAlgorithm(name) ==
    IF name = <<"s", "h", "a", "1">> THEN "sha1"
    ELSE IF name = <<"s", "h", "a", "2", "5", "6">> THEN "sha256"
    ELSE IF name = <<"s", "h", "a", "3", "8", "4">> THEN "sha384"
    ELSE IF name = <<"s", "h", "a", "5", "1", "2">> THEN "sha512"
    ELSE ""

\* A variant that compares the digests byte by byte.
DigestMatchesExactly(given, sum) == given = sum

\* The comparison of the header's digest with the computed one.
DigestMatches(given, sum) == EqualFold(given, sum)

\* The signature check of an update for a subscription with a secret: "" when
\* the request passes, else the message of the http.Error that rejects it.
SignatureError(s, header, body) ==
    LET signature == Split(header, "=")
        hashAlg == RecognizedAlgorithm(signature[1])
        sum == EncodeToString(Hmac(hashAlg, Bytes(SecretKey(s)), body))
    IN  IF Len(signature) # 2 THEN "Invalid Subscription"
        ELSE IF hashAlg = "" THEN "Invalid Signature"
        ELSE IF ~DigestMatches(signature[2], sum) THEN "Invalid Signature"
        ELSE ""

\* A variant that gives the record another id as well.
VerifiedWithNewId(s, t, leaseSeconds) ==
    LET lease == Atoi(leaseSeconds)
    IN  [s EXCEPT !.verifiedAt = t, !.id = @ + 1,
                  !.lease = IF lease.err THEN @ ELSE Second * lease.val]

\* A variant that records the lease and not the time.
VerifiedLeaseOnly(s, t, leaseSeconds) ==
    LET lease == Atoi(leaseSeconds)
    IN  [s EXCEPT !.lease = IF lease.err THEN @ ELSE Second * lease.val]

\* The record after a subscribe-mode callback at time t.
Verified(s, t, leaseSeconds) ==
    LET lease == Atoi(leaseSeconds)
    IN  [s EXCEPT !.verifiedAt = t,
                  !.lease = IF lease.err THEN @ ELSE Second * lease.val]

\* The default branch of handleCallback once subscriptionForPath has returned
\* found: the registry, the response, and the broadcast goroutines started.
handleUpdate(subs, req, found) ==
    IF ~found.exists
    THEN [subs |-> subs,
          resp |-> HttpError(NewResponse, "Unknown subscription", StatusBadRequest),
          go |-> <<>>]
    ELSE LET written == Write(NewResponse, "")
             failure == IF Len(found.s.secret) > 0
                        THEN SignatureError(found.s, req.signature, req.body)
                        ELSE ""
         IN  IF failure # ""
             THEN [subs |-> subs, resp |-> HttpError(written, failure, StatusBadRequest),
                   go |-> <<>>]
             ELSE [subs |-> subs, resp |-> written,
                   go |-> <<[id |-> found.s.id, handler |-> found.s.handler,
                             contentType |-> req.contentType, body |-> req.body]>>]

\* handleCallback on request req at time t: the results it may have, each the
\* registry, the response, and the broadcast goroutines started.
handleCallback(subs, t, req) ==
    IF req.readErr
    THEN {[subs |-> subs, resp |-> Finish(NewResponse), go |-> <<>>]}
    ELSE IF req.mode = "subscribe"
    THEN IF req.topic \in DOMAIN subs
         THEN {[subs |-> [subs EXCEPT ![req.topic] = Verified(@, t, req.leaseSeconds)],
                resp |-> Write(NewResponse, req.challenge), go |-> <<>>]}
         ELSE {[subs |-> subs,
                resp |-> HttpError(NewResponse, "Unexpected subscription", StatusBadRequest),
                go |-> <<>>]}
    ELSE IF req.mode = "unsubscribe"
    THEN IF req.topic \notin DOMAIN subs
         THEN {[subs |-> subs, resp |-> Write(NewResponse, req.challenge), go |-> <<>>]}
         ELSE {[subs |-> subs,
                resp |-> HttpError(NewResponse, "Unexpected unsubscribe", StatusBadRequest),
                go |-> <<>>]}
    ELSE IF req.mode = "denied"
    THEN {[subs |-> subs, resp |-> Write(NewResponse, ""), go |-> <<>>]}
    ELSE {handleUpdate(subs, req, found) : found \in subscriptionForPath(subs, req.path)}

----------------------------------------------------------------------------
(* The callbacks the hub, or anybody else, may send. *)

Challenges == {"", "c7"}
LeaseValues == {<<>>, <<"1", "8", "0", "0">>}
Bodies == {<<170>>, <<187>>}

Paths ==
    {CallbackPrefix \o Itoa(i) : i \in 0..MaxSubscribe}
        \cup {CallbackPrefix \o <<"0", "/">>, CallbackPrefix \o <<"x">>}

Upper(s) == [i \in 1..Len(s) |->
                IF s[i] \in LowerSet THEN UpperAlpha[IndexOf(LowerAlpha, s[i])] ELSE s[i]]

\* One hex digit changed.
Flipped(s) == [s EXCEPT ![Len(s)] = IF @ = "0" THEN "1" ELSE "0"]

AlgorithmName(alg) ==
    CASE alg = "sha1" -> <<"s", "h", "a", "1">>
      [] alg = "sha256" -> <<"s", "h", "a", "2", "5", "6">>
      [] alg = "sha384" -> <<"s", "h", "a", "3", "8", "4">>
      [] alg = "sha512" -> <<"s", "h", "a", "5", "1", "2">>

\* The hub's header for this key and body: <alg>=<hex digest>.
Signed(alg, key, body) ==
    AlgorithmName(alg) \o <<"=">> \o EncodeToString(Hmac(alg, Bytes(key), body))

\* The key the hub holds for a topic subscribed with this secret.
HubKey(topic, secret) == SecretKey(NewSubscription("hub", topic, secret, 0, "h1"))

\* x-hub-signature values for this body: none, one without "=", the right
\* header for the key of topic a under each algorithm, and damaged variants of
\* the sha256 one (upper-case digest, one digit changed, another algorithm's
\* name, upper-case name, a third part, md5, another key, another body).
Signatures(body) ==
    LET key == HubKey(<<"a">>, <<"k">>)
        good == Signed("sha256", key, body)
        sum == Split(good, "=")[2]
    IN  {<<>>, <<"s", "h", "a", "1">>}
        \cup {Signed(alg, key, body) : alg \in HashNames}
        \cup {AlgorithmName("sha256") \o <<"=">> \o Upper(sum),
              AlgorithmName("sha256") \o <<"=">> \o Flipped(sum),
              AlgorithmName("sha1") \o <<"=">> \o sum,
              Upper(AlgorithmName("sha256")) \o <<"=">> \o sum,
              good \o <<"=">>,
              <<"m", "d", "5", "=">> \o sum,
              Signed("sha256", HubKey(<<"b">>, <<"k">>), body),
              Signed("sha256", key, body \o <<0>>)}

Verification(mode, topic, challenge, leaseSeconds) ==
    [mode |-> mode, topic |-> topic, challenge |-> challenge, leaseSeconds |-> leaseSeconds,
     path |-> CallbackPrefix \o <<"0">>, signature |-> <<>>,
     contentType |-> "", body |-> <<>>, readErr |-> FALSE]

\* Callbacks with hub.mode subscribe, unsubscribe or denied.
Verifications ==
    {Verification("subscribe", topic, challenge, lease) :
        topic \in Topics, challenge \in Challenges, lease \in LeaseValues}
    \cup {Verification("unsubscribe", topic, challenge, <<>>) :
            topic \in Topics, challenge \in Challenges}
    \cup {Verification("denied", topic, "", <<>>) : topic \in Topics}

Update(path, signature, body) ==
    [mode |-> "", topic |-> <<>>, challenge |-> "", leaseSeconds |-> <<>>, path |-> path,
     signature |-> signature, contentType |-> "application/atom+xml", body |-> body,
     readErr |-> FALSE]

\* Callbacks without hub.mode, and one whose body cannot be read.
Updates ==
    UNION {{Update(path, signature, body) : path \in Paths, signature \in Signatures(body)}
           : body \in Bodies}
    \cup {[Update(CallbackPrefix \o <<"0">>, <<>>, <<170>>) EXCEPT !.readErr = TRUE]}

\* A variant that calls the handler itself instead of starting a goroutine.
HandleCallbackInline(req) ==
    /\ UNCHANGED <<subscriptionIdCounter, running, history, now, timers, hung, threads,
                   tasks, overlap>>
    /\ outbox' = <<>>
    /\ Flip
    /\ request' = req
    /\ \E out \in handleCallback(subscriptions, now, req) :
        /\ subscriptions' = out.subs
        /\ resp' = out.resp
        /\ calls' = calls \o out.go
        /\ accepted' = IF out.go = <<>> THEN accepted
                       ELSE accepted (+) SetToBag({out.go[1].body})

\* A variant that enters the digest of an update's body in the ring on
\* arrival, before the subscription and the signature are looked at.
HandleCallbackRecordsFirst(req) ==
    /\ UNCHANGED <<subscriptionIdCounter, running, now, timers, hung, threads, calls>>
    /\ history' = IF req.mode = "" /\ ~req.readErr
                  THEN RingNext(RingSetValue(history, Md5Sum(req.body)))
                  ELSE history
    /\ outbox' = <<>>
    /\ Flip
    /\ request' = req
    /\ \E out \in handleCallback(subscriptions, now, req) :
        /\ subscriptions' = out.subs
        /\ resp' = out.resp
        /\ tasks' = tasks \o [i \in 1..Len(out.go) |->
                                [call |-> out.go[i], pc |-> "scan", unique |-> TRUE]]
        /\ accepted' = IF out.go = <<>> THEN accepted
                       ELSE accepted (+) SetToBag({out.go[1].body})
        /\ overlap' = (overlap \/ (out.go # <<>> /\ tasks # <<>>))

\* A callback arrives and handleCallback runs on it.
HandleCallback(req) ==
    /\ UNCHANGED <<subscriptionIdCounter, running, history, now, timers, hung, threads, calls>>
    /\ outbox' = <<>>
    /\ Flip
    /\ request' = req
    /\ \E out \in handleCallback(subscriptions, now, req) :
        /\ subscriptions' = out.subs
        /\ resp' = out.resp
        /\ tasks' = tasks \o [i \in 1..Len(out.go) |->
                                [call |-> out.go[i], pc |-> "scan", unique |-> TRUE]]
        /\ accepted' = IF out.go = <<>> THEN accepted
                       ELSE accepted (+) SetToBag({out.go[1].body})
        /\ overlap' = (overlap \/ (out.go # <<>> /\ tasks # <<>>))

----------------------------------------------------------------------------
(* broadcast, one goroutine per accepted update *)

\* A variant with a dedup memory of its own for each subscription: the body
\* is a duplicate when this subscription's handler has been given it.
BroadcastScanOwnRing(i) ==
    /\ i \in 1..Len(tasks)
    /\ tasks[i].pc = "scan"
    /\ tasks' = [tasks EXCEPT ![i].pc = "decide",
                              ![i].unique = ~\E k \in 1..Len(calls) :
                                    /\ calls[k].body = tasks[i].call.body
                                    /\ calls[k].id = tasks[i].call.id]
    /\ UNCHANGED <<subscriptions, subscriptionIdCounter, running, history, now, timers,
                   hung, threads, request, resp, outbox, calls, accepted, overlap, epoch>>

\* hash := md5.New().Sum(body), and the scan of the ring for it.
BroadcastScan(i) ==
    /\ i \in 1..Len(tasks)
    /\ tasks[i].pc = "scan"
    /\ tasks' = [tasks EXCEPT ![i].pc = "decide",
                              ![i].unique = ~RingHolds(history, Md5Sum(tasks[i].call.body))]
    /\ UNCHANGED <<subscriptions, subscriptionIdCounter, running, history, now, timers,
                   hung, threads, request, resp, outbox, calls, accepted, overlap, epoch>>

\* if unique { store the hash, advance the ring, call the handler }
BroadcastDeliver(i) ==
    /\ i \in 1..Len(tasks)
    /\ tasks[i].pc = "decide"
    /\ IF tasks[i].unique
       THEN /\ history' = RingNext(RingSetValue(history, Md5Sum(tasks[i].call.body)))
            /\ calls' = Append(calls, tasks[i].call)
       ELSE UNCHANGED <<history, calls>>
    /\ tasks' = Remove(tasks, i)
    /\ UNCHANGED <<subscriptions, subscriptionIdCounter, running, now, timers, hung,
                   threads, request, resp, outbox, accepted, overlap, epoch>>

\* if unique { ...; s.handler(contentType, body) } with a handler that never
\* returns: the goroutine stays in the handler for good.
BroadcastHandlerBlocks(i) ==
    /\ i \in 1..Len(tasks)
    /\ tasks[i].pc = "decide"
    /\ tasks[i].unique
    /\ history' = RingNext(RingSetValue(history, Md5Sum(tasks[i].call.body)))
    /\ calls' = Append(calls, tasks[i].call)
    /\ tasks' = [tasks EXCEPT ![i].pc = "handler"]
    /\ UNCHANGED <<subscriptions, subscriptionIdCounter, running, now, timers, hung,
                   threads, request, resp, outbox, accepted, overlap, epoch>>

----------------------------------------------------------------------------
(* Calls under way at the same time.  The code holds no lock, so a call of
   Subscribe, Start or handleCallback runs statement by statement among the
   statements of the other calls. *)

\* A call under way: what it runs, where it stands, and its local variables.
NewThread(op, pc, s, n, req) == [op |-> op, pc |-> pc, s |-> s, n |-> n, req |-> req]

\* The calls of Subscribe under way.
Subscribing == {i \in 1..Len(threads) : threads[i].op = "Subscribe"}

\* s := &subscription{..., id: subscriptionIdCounter, ...}
SubscribeRead(hub, topic, secret, handler) ==
    /\ Len(threads) < MaxThreads
    /\ subscriptionIdCounter + Cardinality(Subscribing) < MaxSubscribe
    /\ threads' = Append(threads,
            NewThread("Subscribe", "put",
                      NewSubscription(hub, topic, secret, subscriptionIdCounter, handler),
                      0, NoRequest))
    /\ UNCHANGED <<subscriptions, subscriptionIdCounter, running, history, now, timers, hung,
                   tasks, request, resp, outbox, calls, accepted, overlap, epoch>>

\* client.subscriptions[topic] = s
SubscribePut(i) ==
    /\ i \in Subscribing
    /\ threads[i].pc = "put"
    /\ subscriptions' = MapPut(subscriptions, threads[i].s.topic, threads[i].s)
    /\ threads' = [threads EXCEPT ![i].pc = "load"]
    /\ UNCHANGED <<subscriptionIdCounter, running, history, now, timers, hung,
                   tasks, request, resp, outbox, calls, accepted, overlap, epoch>>

\* The read of subscriptionIdCounter in "subscriptionIdCounter + 1".
SubscribeLoad(i) ==
    /\ i \in Subscribing
    /\ threads[i].pc = "load"
    /\ threads' = [threads EXCEPT ![i].pc = "store", ![i].n = subscriptionIdCounter]
    /\ UNCHANGED <<subscriptions, subscriptionIdCounter, running, history, now, timers, hung,
                   tasks, request, resp, outbox, calls, accepted, overlap, epoch>>

\* The write of subscriptionIdCounter, and the request when the client runs.
SubscribeStore(i) ==
    /\ i \in Subscribing
    /\ threads[i].pc = "store"
    /\ subscriptionIdCounter' = threads[i].n + 1
    /\ outbox' = IF running THEN <<SubscriptionRequest(threads[i].s)>> ELSE <<>>
    /\ threads' = Remove(threads, i)
    /\ NoCallback
    /\ Flip
    /\ UNCHANGED <<subscriptions, running, history, now, timers, hung, tasks, calls,
                   accepted, overlap>>

\* The calls of Start that have found the client not running.
Starting == {i \in 1..Len(threads) : threads[i].op = "Start"}

\* if client.running { return }
StartCheck ==
    /\ Len(threads) < MaxThreads
    /\ threads' = IF running THEN threads
                  ELSE Append(threads, NewThread("Start", "set", nilSubscription, 0, NoRequest))
    /\ outbox' = <<>>
    /\ NoCallback
    /\ Flip
    /\ UNCHANGED <<subscriptions, subscriptionIdCounter, running, history, now, timers, hung,
                   tasks, calls, accepted, overlap>>

\* client.running = true; client.ensureSubscribed()
StartRun(i, order, oc) ==
    /\ i \in Starting
    /\ running' = TRUE
    /\ threads' = Remove(threads, i)
    /\ NoCallback
    /\ Flip
    /\ UNCHANGED <<subscriptions, subscriptionIdCounter, history, now, tasks, calls,
                   accepted, overlap>>
    /\ ensureSubscribed(order, oc, timers)

\* The subscribe-mode callbacks that have set verifiedAt and not yet the lease.
Verifying == {i \in 1..Len(threads) : threads[i].op = "handleCallback"}

\* case "subscribe": s, exists := client.subscriptions[topic]; s.verifiedAt = time.Now()
\* The call keeps s, the record as it found it.
VerifyStamp(req) ==
    /\ Len(threads) < MaxThreads
    /\ req.mode = "subscribe"
    /\ req.topic \in DOMAIN subscriptions
    /\ subscriptions' = [subscriptions EXCEPT ![req.topic].verifiedAt = now]
    /\ threads' = Append(threads,
            NewThread("handleCallback", "lease", subscriptions[req.topic], 0, req))
    /\ UNCHANGED <<subscriptionIdCounter, running, history, now, timers, hung, tasks,
                   request, resp, outbox, calls, accepted, overlap, epoch>>

\* lease, err := strconv.Atoi(...); if err == nil { s.lease = ... }; resp.Write(challenge)
\* The write goes to the record the call holds, registered still or not.
VerifyLease(i) ==
    LET req == threads[i].req
        lease == Atoi(req.leaseSeconds)
        held == /\ req.topic \in DOMAIN subscriptions
                /\ subscriptions[req.topic].id = threads[i].s.id
    IN  /\ i \in Verifying
        /\ subscriptions' = IF held /\ ~lease.err
                            THEN [subscriptions EXCEPT ![req.topic].lease = Second * lease.val]
                            ELSE subscriptions
        /\ threads' = Remove(threads, i)
        /\ request' = req
        /\ resp' = Write(NewResponse, req.challenge)
        /\ outbox' = <<>>
        /\ Flip
        /\ UNCHANGED <<subscriptionIdCounter, running, history, now, timers, hung, tasks,
                       calls, accepted, overlap>>

----------------------------------------------------------------------------
(* Spec: the life of the subscriptions.  Subscribe, Unsubscribe, Start, the
   renewal timer, the clock, and the verification callbacks of the hub. *)

Next ==
    \/ \E hub \in Hubs, topic \in Topics, handler \in Handlers, oc \in Outcomes :
          Subscribe(hub, topic, SecretOf(topic), handler, oc)
    \/ \E topic \in Topics, oc \in Outcomes : Unsubscribe(topic, oc)
    \/ Start
    \/ \E i \in 1..Len(timers), order \in Orders(DOMAIN subscriptions),
          oc \in [DOMAIN subscriptions -> Outcomes] : Tick(i, order, oc)
    \/ Advance
    \/ \E req \in Verifications : HandleCallback(req)

Spec == Init /\ [][Next]_vars

----------------------------------------------------------------------------
(* SigSpec: the signature check.  Subscribe, update callbacks under every
   path and signature header, one at a time, and the broadcast goroutine of
   an accepted one. *)

SignedCallback(req) ==
    /\ tasks = <<>>
    /\ BagCardinality(accepted) < MaxSigned
    /\ HandleCallback(req)

SigNext ==
    \/ \E hub \in Hubs, topic \in Topics, handler \in Handlers, oc \in Outcomes :
          Subscribe(hub, topic, SecretOf(topic), handler, oc)
    \/ \E req \in Updates : SignedCallback(req)
    \/ \E i \in 1..Len(tasks) : BroadcastScan(i)
    \/ \E i \in 1..Len(tasks) : BroadcastDeliver(i)

SigSpec == Init /\ [][SigNext]_vars

----------------------------------------------------------------------------
(* UpdateSpec: deliveries and the dedup ring.  Subscribe, Unsubscribe, update
   callbacks for the subscriptions made, unsigned or signed for topic a, and
   the broadcast goroutines they start, in every interleaving. *)

Deliveries ==
    UNION {{Update(CallbackPrefix \o Itoa(i), signature, body) :
                i \in 0..(MaxSubscribe - 1),
                signature \in {<<>>, Signed("sha256", HubKey(<<"a">>, <<"k">>), body)}}
           : body \in Bodies}

UpdateCallback(req) ==
    /\ Len(tasks) < MaxTasks
    /\ BagCardinality(accepted) < MaxAccepted
    /\ HandleCallback(req)

UpdateNext ==
    \/ \E hub \in Hubs, topic \in Topics, handler \in Handlers, oc \in Outcomes :
          Subscribe(hub, topic, SecretOf(topic), handler, oc)
    \/ \E topic \in Topics, oc \in Outcomes : Unsubscribe(topic, oc)
    \/ \E req \in Deliveries : UpdateCallback(req)
    \/ \E i \in 1..Len(tasks) : BroadcastScan(i)
    \/ \E i \in 1..Len(tasks) : BroadcastDeliver(i)

UpdateSpec == Init /\ [][UpdateNext]_vars

----------------------------------------------------------------------------
(* RingSpec: the dedup ring filling up.  One subscription without a secret;
   the bodies <<1>>, <<2>>, ... are delivered in this order, one at a time,
   and the first body is delivered again at any time. *)

RingSubscribe(hub, handler, oc) ==
    /\ accepted = EmptyBag
    /\ Subscribe(hub, <<"b">>, <<>>, handler, oc)

\* The bodies delivered so far are <<1>> .. <<Fresh - 1>>.
Fresh == Cardinality(BagToSet(accepted)) + 1

RingCallback(n) ==
    /\ tasks = <<>>
    /\ \/ n = Fresh /\ n <= HistorySize + RingExtra
       \/ n = 1 /\ n < Fresh /\ CopiesIn(<<1>>, accepted) <= RingExtra
    /\ \E topic \in DOMAIN subscriptions :
          HandleCallback(Update(CallbackPrefix \o Itoa(subscriptions[topic].id), <<>>, <<n>>))

FillNext ==
    \/ \E hub \in Hubs, handler \in Handlers, oc \in Outcomes : RingSubscribe(hub, handler, oc)
    \/ \E n \in 1..(HistorySize + RingExtra) : RingCallback(n)
    \/ \E i \in 1..Len(tasks) : BroadcastScan(i)
    \/ \E i \in 1..Len(tasks) : BroadcastDeliver(i)

RingSpec == Init /\ [][FillNext]_vars

----------------------------------------------------------------------------
(* SubscribeSpec: calls of Subscribe that overlap, and Unsubscribe. *)

SubscribeNext ==
    \/ \E hub \in Hubs, topic \in Topics, handler \in Handlers :
          SubscribeRead(hub, topic, SecretOf(topic), handler)
    \/ \E i \in 1..Len(threads) : SubscribePut(i)
    \/ \E i \in 1..Len(threads) : SubscribeLoad(i)
    \/ \E i \in 1..Len(threads) : SubscribeStore(i)
    \/ \E topic \in Topics, oc \in Outcomes : Unsubscribe(topic, oc)

SubscribeSpec == Init /\ [][SubscribeNext]_vars

----------------------------------------------------------------------------
(* StartSpec: calls of Start that overlap, with Subscribe, the renewal timers
   and the clock. *)

StartNext ==
    \/ \E hub \in Hubs, topic \in Topics, handler \in Handlers, oc \in Outcomes :
          Subscribe(hub, topic, SecretOf(topic), handler, oc)
    \/ StartCheck
    \/ \E i \in 1..Len(threads), order \in Orders(DOMAIN subscriptions),
          oc \in [DOMAIN subscriptions -> Outcomes] : StartRun(i, order, oc)
    \/ \E i \in 1..Len(timers), order \in Orders(DOMAIN subscriptions),
          oc \in [DOMAIN subscriptions -> Outcomes] : Tick(i, order, oc)
    \/ Advance

StartSpec == Init /\ [][StartNext]_vars

----------------------------------------------------------------------------
(* HandlerSpec: update callbacks whose handler may never return.  Subscribe,
   the deliveries of UpdateSpec, and the broadcast goroutines, each ending
   or staying in its handler. *)

HandlerNext ==
    \/ \E hub \in Hubs, topic \in Topics, handler \in Handlers, oc \in Outcomes :
          Subscribe(hub, topic, SecretOf(topic), handler, oc)
    \/ \E req \in Deliveries : UpdateCallback(req)
    \/ \E i \in 1..Len(tasks) : BroadcastScan(i)
    \/ \E i \in 1..Len(tasks) : BroadcastDeliver(i)
    \/ \E i \in 1..Len(tasks) : BroadcastHandlerBlocks(i)

HandlerSpec == Init /\ [][HandlerNext]_vars

----------------------------------------------------------------------------
(* ScanSpec: renewal scans among subscribe-mode callbacks under way.
   Subscribe, Start, the renewal timers, the clock, and the two writes of a
   subscribe-mode callback for a registered topic. *)

\* One subscribe-mode callback at a time.
ScanCallback(req) ==
    /\ threads = <<>>
    /\ VerifyStamp(req)

ScanNext ==
    \/ \E hub \in Hubs, topic \in Topics, handler \in Handlers, oc \in Outcomes :
          Subscribe(hub, topic, SecretOf(topic), handler, oc)
    \/ Start
    \/ \E i \in 1..Len(timers), order \in Orders(DOMAIN subscriptions),
          oc \in [DOMAIN subscriptions -> Outcomes] : Tick(i, order, oc)
    \/ Advance
    \/ \E req \in Verifications : ScanCallback(req)
    \/ \E i \in 1..Len(threads) : VerifyLease(i)

ScanSpec == Init /\ [][ScanNext]_vars

----------------------------------------------------------------------------
(* CallbackSpec: every kind of callback.  Subscribe, Unsubscribe, the
   verification callbacks and the update callbacks under every path and
   signature header, one at a time, and the broadcast goroutines. *)

CallbackNext ==
    \/ \E hub \in Hubs, topic \in Topics, handler \in Handlers, oc \in Outcomes :
          Subscribe(hub, topic, SecretOf(topic), handler, oc)
    \/ \E topic \in Topics, oc \in Outcomes : Unsubscribe(topic, oc)
    \/ \E req \in Verifications \cup Updates : SignedCallback(req)
    \/ \E i \in 1..Len(tasks) : BroadcastScan(i)
    \/ \E i \in 1..Len(tasks) : BroadcastDeliver(i)

CallbackSpec == Init /\ [][CallbackNext]_vars

----------------------------------------------------------------------------
(* Claims about the signature check (checked under SigSpec). *)

\* The step is handleCallback on an update notification whose body was read.
UpdateHandled == epoch' # epoch /\ request'.mode = "" /\ ~request'.readErr

\* The registered topics with a secret whose callback path is the path of req.
Addressed(req) ==
    {t \in DOMAIN subscriptions :
        /\ Len(subscriptions[t].secret) > 0
        /\ req.path = CallbackPrefix \o Itoa(subscriptions[t].id)}

\* header is <alg>=<digest>, alg one of the four names, and digest the hex
\* HMAC of body under the key of s, in upper or lower case.
ValidSignature(s, header, body) ==
    \E alg \in {"sha1", "sha256", "sha384", "sha512"} :
        LET name == AlgorithmName(alg)
            n == Len(name)
            sum == EncodeToString(Hmac(alg, Bytes(SecretKey(s)), body))
        IN  /\ Len(header) = n + 1 + Len(sum)
            /\ SubSeq(header, 1, n) = name
            /\ header[n + 1] = "="
            /\ \A i \in 1..Len(sum) : Fold(header[n + 1 + i]) = sum[i]

\* What "go client.broadcast" is given for request req addressed to s.
Dispatch(s, req) ==
    [id |-> s.id, handler |-> s.handler, contentType |-> req.contentType, body |-> req.body]

\* C1: an update callback for a subscription with a secret starts exactly one
\* broadcast for the subscription's handler when its x-hub-signature is
\* <alg>=<digest> with a recognized algorithm and the digest of the body
\* under the derived key (in any case), and starts none and invokes no
\* handler otherwise; a handler is invoked only by a broadcast so started.
C1_SignatureGatesDispatch ==
    [][/\ UpdateHandled =>
            \A t \in Addressed(request') :
                IF ValidSignature(subscriptions[t], request'.signature, request'.body)
                THEN /\ Len(tasks') = Len(tasks) + 1
                     /\ SubSeq(tasks', 1, Len(tasks)) = tasks
                     /\ tasks'[Len(tasks')].call = Dispatch(subscriptions[t], request')
                     /\ calls' = calls
                ELSE tasks' = tasks /\ calls' = calls
       /\ ~UpdateHandled => Len(tasks') <= Len(tasks)
       /\ calls' # calls =>
            /\ Len(tasks') = Len(tasks) - 1
            /\ \E i \in 1..Len(tasks) : calls' = Append(calls, tasks[i].call)]_vars

\* The handler of the subscription with a secret has been invoked once, for
\* an update signed with the digest in upper case.
C1_Witness ==
    /\ tasks = <<>>
    /\ request.mode = ""
    /\ \E t \in DOMAIN subscriptions :
        LET s == subscriptions[t]
        IN  /\ Len(s.secret) > 0
            /\ request.signature = AlgorithmName("sha256") \o <<"=">>
                    \o Upper(EncodeToString(Hmac("sha256", Bytes(SecretKey(s)), request.body)))
            /\ calls = <<Dispatch(s, request)>>

\* C2 as stated: an update callback for a subscription with a secret whose
\* signature is not valid is answered with status 400.
C2_RejectedUpdateStatus400 ==
    [][UpdateHandled =>
        \A t \in Addressed(request') :
            ~ValidSignature(subscriptions[t], request'.signature, request'.body)
                => resp'.status = 400]_vars

----------------------------------------------------------------------------
(* Claims about the dedup ring (checked under UpdateSpec and RingSpec). *)

\* The number of handler invocations for this body.
Invocations(body) == Cardinality({k \in 1..Len(calls) : calls[k].body = body})

\* C3: when update callbacks are accepted one after the other, each after
\* the broadcast of the one before has ended, and fewer than 50 bodies are
\* delivered, the handler has been invoked exactly once for every body
\* delivered, however often it was delivered.
C3_SameBodyInvokesOnce ==
    (~overlap /\ tasks = <<>> /\ BagCardinality(accepted) < 50)
        => \A body \in Bodies :
            Invocations(body) = IF BagIn(body, accepted) THEN 1 ELSE 0

\* One body was delivered twice in sequence, another body in between, and
\* the handler was invoked once for each body.
C3_Witness ==
    /\ ~overlap /\ tasks = <<>>
    /\ CopiesIn(<<170>>, accepted) = 2
    /\ CopiesIn(<<187>>, accepted) = 1
    /\ Len(calls) = 2
    /\ calls[1].body = <<170>>

\* The bodies of the latest n handler invocations.
LatestBodies(n) == {calls[k].body : k \in {j \in 1..Len(calls) : j > Len(calls) - n}}

\* The digests the ring holds.
Held == {history.vals[i][1] : i \in {j \in DOMAIN history.vals : history.vals[j] # <<>>}}

\* C4: with deliveries in sequence, the ring holds the digests of the latest
\* 50 bodies admitted and no other, and a delivery invokes the handler
\* exactly when its body is not one of the latest 50 admitted: the first
\* body is suppressed after 50 distinct bodies and admitted again after 51.
C4_RingEvictsInInsertionOrder ==
    /\ [](/\ Cardinality(Held) <= 50
          /\ Held = {body \o Md5OfEmpty : body \in LatestBodies(50)})
    /\ [][\A i \in 1..Len(tasks) :
            BroadcastDeliver(i) =>
                IF tasks[i].call.body \in LatestBodies(50)
                THEN calls' = calls
                ELSE calls' = Append(calls, tasks[i].call)]_vars

\* The first body was delivered three times: admitted, suppressed while 50
\* bodies had been admitted, and admitted again after the 51st.
C4_Witness ==
    /\ tasks = <<>>
    /\ CopiesIn(<<1>>, accepted) = 3
    /\ Len(calls) = 52
    /\ calls[1].body = <<1>>
    /\ calls[52].body = <<1>>
    /\ Invocations(<<1>>) = 2

----------------------------------------------------------------------------
(* Claims about the verification callbacks (checked under Spec). *)

\* The hub.lease_seconds values that are decimal numbers, with their value.
DecimalLeases == {<<<<"1", "8", "0", "0">>, 1800>>}

IsDecimalLease(text) == \E p \in DecimalLeases : p[1] = text

IsSuccess(status) == status \in 200..299

\* The step is handleCallback on a request with this hub.mode.
Handled(mode) == epoch' # epoch /\ request'.mode = mode

\* C5 as stated: after a subscribe-mode callback for a registered topic the
\* record has verifiedAt = now and the lease that hub.lease_seconds states,
\* and the response is the challenge with a 2xx status.
C5_LeaseAlwaysFromParameter ==
    [][(Handled("subscribe") /\ HasSubscription(request'.topic))
        => /\ subscriptions'[request'.topic].verifiedAt = now
           /\ \E p \in DecimalLeases :
                /\ p[1] = request'.leaseSeconds
                /\ subscriptions'[request'.topic].lease = p[2] * Second
           /\ resp'.body = request'.challenge
           /\ IsSuccess(resp'.status)]_vars

\* C5 amended: after a subscribe-mode callback for a registered topic the
\* record has verifiedAt = now; its lease is the one hub.lease_seconds states
\* when that is a decimal number and is the lease it had before otherwise;
\* the response is the challenge with a 2xx status.
C5_SubscribeCallbackVerifies ==
    [][(Handled("subscribe") /\ HasSubscription(request'.topic))
        => /\ request'.topic \in DOMAIN subscriptions'
           /\ subscriptions'[request'.topic].verifiedAt = now
           /\ \A p \in DecimalLeases :
                p[1] = request'.leaseSeconds
                    => subscriptions'[request'.topic].lease = p[2] * Second
           /\ ~IsDecimalLease(request'.leaseSeconds)
                => subscriptions'[request'.topic].lease = subscriptions[request'.topic].lease
           /\ resp'.body = request'.challenge
           /\ IsSuccess(resp'.status)]_vars

\* A subscribe-mode callback with challenge "c7" and a lease of 1800 seconds
\* has just verified a record.
C5_Witness ==
    /\ resp = [wroteHeader |-> TRUE, status |-> 200, body |-> "c7"]
    /\ \E topic \in DOMAIN subscriptions :
        /\ subscriptions[topic].verifiedAt = now
        /\ subscriptions[topic].lease = 1800

\* C6: a subscribe-mode callback for a topic without a registry entry is
\* answered with status 400 and changes neither the registry, nor a record,
\* nor the dedup ring.
C6_UnexpectedSubscribeRejected ==
    [][(Handled("subscribe") /\ ~HasSubscription(request'.topic))
        => /\ resp'.status = 400
           /\ subscriptions' = subscriptions
           /\ history' = history]_vars

\* A subscribe-mode callback was rejected after a topic had been subscribed
\* and unsubscribed again.
C6_Witness ==
    /\ resp = [wroteHeader |-> TRUE, status |-> 400, body |-> "Unexpected subscription\n"]
    /\ subscriptionIdCounter > 0
    /\ DOMAIN subscriptions = {}

\* C7: Unsubscribe(T) leaves T unregistered whatever becomes of its request;
\* an unsubscribe-mode callback for T is answered with the challenge and a
\* 2xx status when T is not registered, and with status 400 when it is.
C7_UnsubscribeIsOptimistic ==
    [][/\ \A topic \in Topics, oc \in Outcomes :
            Unsubscribe(topic, oc) => ~HasSubscription(topic)'
       /\ Handled("unsubscribe")
            => IF HasSubscription(request'.topic)
               THEN resp'.status = 400
               ELSE IsSuccess(resp'.status) /\ resp'.body = request'.challenge]_vars

\* An unsubscribe-mode callback was confirmed while the client runs and after
\* every subscribed topic had been unsubscribed.
C7_Witness ==
    /\ resp = [wroteHeader |-> TRUE, status |-> 200, body |-> "c7"]
    /\ running
    /\ subscriptionIdCounter > 0
    /\ DOMAIN subscriptions = {}

----------------------------------------------------------------------------
(* Claims about the renewal scan (checked under Spec). *)

\* A step in which ensureSubscribed ran: Start started the client, or a timer
\* fired (the scan takes its timer away and sets a later one, or hangs).
ScanRan == epoch' # epoch /\ (running' # running \/ timers' # timers)

\* The subscribe requests for this topic among the requests made.
RequestsFor(sent, topic) ==
    Cardinality({k \in 1..Len(sent) : sent[k].topic = topic /\ sent[k].mode = "subscribe"})

\* verifiedAt + lease is more than one hour before t.
LapsedOverAnHour(s, t) == s.verifiedAt + s.lease + 3600 < t

C9_RenewedBeforeExpiry ==
    [][(ScanRan /\ ~hung') =>
        \A topic \in DOMAIN subscriptions :
            LET s == subscriptions[topic]
            IN  (s.verifiedAt > ZeroTime /\ now < s.verifiedAt + s.lease
                    /\ s.verifiedAt + s.lease <= now + 3600)
                => RequestsFor(outbox', topic) = 1]_vars

\* C10 as stated: a scan that runs to its end makes a subscribe request for
\* every record that was never verified, and whatever the requests of a scan
\* do, a running client has a renewal timer pending after it.
C10_RetriedAndNeverStopped ==
    [][/\ (ScanRan /\ ~hung') =>
            \A topic \in DOMAIN subscriptions :
                subscriptions[topic].verifiedAt = ZeroTime => RequestsFor(outbox', topic) = 1
       /\ ScanRan => subscriptions' = subscriptions
       /\ running' => Len(timers') > 0]_vars

----------------------------------------------------------------------------
(* Claims about calls that overlap. *)

\* The subscription records created: those registered and those a call of
\* Subscribe under way has built.
Created ==
    {subscriptions[t] : t \in DOMAIN subscriptions} \cup {threads[i].s : i \in Subscribing}

\* C11 as stated: no two subscription records created have the same id, so
\* at most one registered record matches a callback id.
C11_IdsNeverReused == \A x, y \in Created : x.id = y.id => x = y

\* C12 as stated: however the broadcasts of update callbacks with the same
\* body interleave, the handler is invoked at most once for that body (fewer
\* than 50 bodies being delivered).
C12_ConcurrentDuplicateOnce ==
    BagCardinality(accepted) < 50 => \A body \in Bodies : Invocations(body) <= 1

\* C13 as stated: once the client runs, exactly one renewal tick is pending
\* or executing (a scan stuck in a request that never returns is executing),
\* however many calls of Start were made and however they overlap.
C13_SchedulerStartedOnce ==
    running => Len(timers) + (IF hung THEN 1 ELSE 0) = 1

\* The registered topics whose callback path is the path of req and whose
\* signature check req passes.
Accepting(req) ==
    {t \in DOMAIN subscriptions :
        /\ req.path = CallbackPrefix \o Itoa(subscriptions[t].id)
        /\ \/ Len(subscriptions[t].secret) = 0
           \/ ValidSignature(subscriptions[t], req.signature, req.body)}

\* The broadcast goroutines that stay in a handler that never returns.
Blocked == {i \in 1..Len(tasks) : tasks[i].pc = "handler"}

\* C14: an update callback invokes no handler itself; when it is accepted
\* its response is complete with status 200 and one broadcast goroutine is
\* started, the other goroutines staying as they are, whether or not some of
\* them are in a handler that never returns.
C14_HandlerDetached ==
    [][UpdateHandled =>
        /\ calls' = calls
        /\ \A t \in Accepting(request') :
            /\ resp' = [wroteHeader |-> TRUE, status |-> 200, body |-> ""]
            /\ Len(tasks') = Len(tasks) + 1
            /\ SubSeq(tasks', 1, Len(tasks)) = tasks
            /\ tasks'[Len(tasks')].call = Dispatch(subscriptions[t], request')]_vars

\* A handler was invoked and never returned; a later callback with another
\* body was answered, dispatched, and its handler invoked and ended.
C14_Witness ==
    /\ Blocked = {1}
    /\ Len(tasks) = 1
    /\ Len(calls) = 2
    /\ calls[1] = tasks[1].call
    /\ calls[2].body = request.body
    /\ calls[2].body # calls[1].body
    /\ resp = [wroteHeader |-> TRUE, status |-> 200, body |-> ""]

\* The registered topics whose record is torn: a callback under way has given
\* it a new verifiedAt and has still to give it a new lease.
Torn ==
    {threads[i].req.topic : i \in
        {j \in Verifying :
            LET req == threads[j].req
            IN  /\ req.topic \in DOMAIN subscriptions
                /\ subscriptions[req.topic].id = threads[j].s.id
                /\ subscriptions[req.topic].verifiedAt # threads[j].s.verifiedAt
                /\ \E p \in DecimalLeases :
                    /\ p[1] = req.leaseSeconds
                    /\ p[2] * Second # subscriptions[req.topic].lease}}

\* C15 as stated: a renewal scan never reads a record that has the new
\* verifiedAt of a subscribe-mode callback together with the old lease.
C15_ScanReadsNoTornRecord == [][ScanRan => Torn = {}]_vars

----------------------------------------------------------------------------
(* Claims about what callbacks and calls leave alone. *)

\* The step is handleCallback on some request.
CallbackHandled == epoch' # epoch /\ request' # NoRequest

\* C16: a callback leaves the set of registered topics as it is; a
\* subscribe-mode callback changes at most verifiedAt and lease of the record
\* of its topic, and every other record, and every record under any other
\* callback, stays as it is.
C16_CallbackFrame ==
    [][CallbackHandled =>
        /\ DOMAIN subscriptions' = DOMAIN subscriptions
        /\ \A t \in DOMAIN subscriptions :
            IF request'.mode = "subscribe" /\ request'.topic = t
            THEN [subscriptions'[t] EXCEPT !.verifiedAt = subscriptions[t].verifiedAt,
                                           !.lease = subscriptions[t].lease]
                    = subscriptions[t]
            ELSE subscriptions'[t] = subscriptions[t]]_vars

\* A denied callback has been answered for a topic that is registered and
\* was never verified, next to a record that a callback has verified.
C16_Witness ==
    /\ request.mode = "denied"
    /\ request.topic \in DOMAIN subscriptions
    /\ subscriptions[request.topic].verifiedAt = ZeroTime
    /\ \E t \in DOMAIN subscriptions : subscriptions[t].lease = 1800

\* The requests of this mode for this topic among the requests made, with
\* the callback URL of the record.
RequestsOf(sent, mode, s) ==
    Cardinality({k \in 1..Len(sent) :
        /\ sent[k].mode = mode
        /\ sent[k].topic = s.topic
        /\ sent[k].hub = s.hub
        /\ sent[k].callback = Self \o CallbackPrefix \o Itoa(s.id)})

\* What C17 says of Subscribe and Unsubscribe: nothing is sent before Start;
\* once running, Subscribe sends one subscribe request for the new record,
\* Unsubscribe of a registered topic one unsubscribe request, and
\* Unsubscribe of an unregistered topic sends and changes nothing.
SendsWhenRunning ==
    /\ subscriptionIdCounter' # subscriptionIdCounter =>
        /\ Len(outbox') = IF running THEN 1 ELSE 0
        /\ \E t \in DOMAIN subscriptions' :
            /\ subscriptions'[t].id = subscriptionIdCounter
            /\ running => RequestsOf(outbox', "subscribe", subscriptions'[t]) = 1
    /\ \A topic \in Topics, oc \in Outcomes :
        Unsubscribe(topic, oc) =>
            IF HasSubscription(topic)
            THEN /\ topic \notin DOMAIN subscriptions'
                 /\ Len(outbox') = IF running THEN 1 ELSE 0
                 /\ running => RequestsOf(outbox', "unsubscribe", subscriptions[topic]) = 1
            ELSE outbox' = <<>> /\ subscriptions' = subscriptions

----------------------------------------------------------------------------
(* Rejected updates and the dedup ring (checked under SigSpec). *)

\* The step is handleCallback on an update that no registered subscription
\* accepts: its path is the callback path of none, or the subscription has
\* a secret and the signature is missing, of an unrecognized algorithm, or
\* not the digest of the body.
UpdateRejected == UpdateHandled /\ Accepting(request') = {}

\* C18: a rejected update callback leaves the dedup ring, the handler
\* invocations and the broadcasts under way as they were, so whenever the
\* broadcast of a correctly signed delivery has ended, before or after any
\* number of rejected deliveries of the same body, the handler has been
\* invoked exactly once for that body.
C18_RejectedLeavesRing ==
    [][/\ UpdateRejected =>
            /\ history' = history
            /\ calls' = calls
            /\ tasks' = tasks
            /\ accepted' = accepted
       /\ tasks' = <<>> =>
            \A body \in Bodies :
                /\ Invocations(body)' = IF BagIn(body, accepted') THEN 1 ELSE 0
                /\ RingHolds(history', Md5Sum(body)) <=> BagIn(body, accepted')]_vars

\* An update for the subscription with a secret, signed with a digest that
\* is not the digest of its body, has just been rejected: no broadcast was
\* started and the ring does not hold the digest of the body.
C18_Witness ==
    /\ tasks = <<>> /\ calls = <<>>
    /\ request.mode = "" /\ ~request.readErr
    /\ Addressed(request) # {}
    /\ Accepting(request) = {}
    /\ request.signature = Flipped(Signed("sha256", HubKey(<<"a">>, <<"k">>), request.body))
    /\ resp.body = "Invalid Signature\n"
    /\ ~RingHolds(history, Md5Sum(request.body))

----------------------------------------------------------------------------
(* The dedup ring and the subscriptions of a client (checked under
   UpdateSpec). *)

\* C19: the ring is one for all subscriptions of the client.  A digest the
\* ring holds stays in it while fewer than 50 bodies are delivered; a
\* broadcast whose scan finds the digest of its body in the ring, entered
\* for whichever subscription, invokes no handler; and when updates are
\* accepted one after the other no body is given to a handler twice, be it
\* the handler of the same or of another subscription.
C19_RingSharedBySubscriptions ==
    [][BagCardinality(accepted') < 50 =>
        /\ \A body \in Bodies :
                RingHolds(history, Md5Sum(body)) => RingHolds(history', Md5Sum(body))
        /\ \A i \in 1..Len(tasks) :
                (/\ Len(tasks') = Len(tasks)
                 /\ tasks[i].pc = "scan"
                 /\ tasks'[i].pc = "decide"
                 /\ RingHolds(history, Md5Sum(tasks[i].call.body)))
                    => ~tasks'[i].unique /\ tasks'[i].call = tasks[i].call
        /\ calls' # calls =>
                \E i \in 1..Len(tasks) :
                    /\ tasks[i].pc = "decide" /\ tasks[i].unique
                    /\ calls' = Append(calls, tasks[i].call)
                    /\ ~overlap => ~RingHolds(history, Md5Sum(tasks[i].call.body))
        /\ ~overlap' =>
                \A j, k \in 1..Len(calls') :
                    calls'[j].body = calls'[k].body => j = k]_vars

\* Two subscriptions; a body was given to the handler of one, then an update
\* with the same body was accepted for the other, its broadcast has ended,
\* and the second handler was not invoked.
C19_Witness ==
    /\ ~overlap /\ tasks = <<>>
    /\ request.mode = ""
    /\ CopiesIn(request.body, accepted) = 2
    /\ Len(calls) = 1
    /\ calls[1].body = request.body
    /\ \E t, u \in DOMAIN subscriptions :
        /\ t # u
        /\ calls[1].id = subscriptions[t].id
        /\ request.path = CallbackPrefix \o Itoa(subscriptions[u].id)
        /\ u \in Accepting(request)

----------------------------------------------------------------------------
(* Updates for subscriptions that are gone (checked under UpdateSpec). *)

\* The registered topics whose callback path is the path of req.
Registered(req) ==
    {t \in DOMAIN subscriptions : req.path = CallbackPrefix \o Itoa(subscriptions[t].id)}

\* C20: the id of a record is below the counter and so is never the id of a
\* record subscribed later; an update callback whose path carries the id of
\* no registered record, as after Unsubscribe of its topic, also when the
\* topic was subscribed anew, is answered 400 'Unknown subscription' and
\* starts no broadcast and invokes no handler; a broadcast a callback starts
\* is for a record registered under the id of the path.
C20_UnsubscribedIdUnknown ==
    [][/\ \A t \in DOMAIN subscriptions' : subscriptions'[t].id < subscriptionIdCounter'
       /\ subscriptionIdCounter' >= subscriptionIdCounter
       /\ \A t \in DOMAIN subscriptions \cap DOMAIN subscriptions' :
            subscriptions'[t].id >= subscriptions[t].id
       /\ (UpdateHandled /\ Registered(request') = {}) =>
            /\ resp' = [wroteHeader |-> TRUE, status |-> 400,
                        body |-> "Unknown subscription\n"]
            /\ tasks' = tasks
            /\ calls' = calls
       /\ Len(tasks') > Len(tasks) =>
            \E t \in Registered(request') :
                tasks'[Len(tasks')].call = Dispatch(subscriptions[t], request')]_vars

\* The record with id 0 was given one update by its handler and was then
\* removed, and a topic was subscribed after that; an update with another
\* body for the path of id 0 has just been answered 'Unknown subscription',
\* and no handler was invoked for it.
C20_Witness ==
    /\ subscriptionIdCounter = 2
    /\ \E t \in DOMAIN subscriptions : subscriptions[t].id = 1
    /\ request.mode = ""
    /\ request.path = CallbackPrefix \o Itoa(0)
    /\ Registered(request) = {}
    /\ resp.status = 400 /\ resp.body = "Unknown subscription\n"
    /\ tasks = <<>>
    /\ Len(calls) = 1
    /\ calls[1].id = 0
    /\ calls[1].body # request.body
    /\ ~RingHolds(history, Md5Sum(request.body))

====
